---- MODULE Spec2Model ----
(***************************************************************************)
(* Model of src/Singleton/singleton.cpp: four variants of the Singleton    *)
(* accessor getInstance().                                                 *)
(*   V1  naive lazy            (lines 7-26)                                *)
(*   V2  lazy, Deletor + DCL   (lines 28-66)                               *)
(*   V3  Meyers' Singleton     (lines 68-83)                               *)
(*   V4  eager static member   (lines 85-107)                              *)
(* One behaviour runs one variant with N threads; each thread calls        *)
(* getInstance() up to MaxCalls times, then the process exits and the      *)
(* static objects that exist are destroyed.                                *)
(***************************************************************************)
EXTENDS Integers, Sequences, FiniteSets

MaxThreads == 2
MaxCalls == 2
MaxFailures == 1
MaxDeletorRuns == 2

VARIABLES
    variant,    \* which of the four classes this process is built from
    N,          \* number of threads calling getInstance()
    phase,      \* "load" (static initialization), "run" (main), "exit"
    pc,         \* position of each thread inside getInstance()
    calls,      \* calls each thread has started
    outcome,    \* how each thread's latest call ended
    instance,   \* V1/V2: static Singleton* instance
    heap,       \* lifecycle state of every Singleton object, by address
    mine,       \* the address a thread's new-expression obtained
    knows,      \* threads that have observed a non-null instance
    lock,       \* V2: holder of the Lock mutex, 0 when free
    guard,      \* V3: initialization guard of the local static
    loadOrder,  \* V4: static initializers in the order they ran
    rets,       \* history: <<caller, address, state at return>> of each return
    ctorBy,     \* history: <<caller, call number, address>> of each constructor run
    dtorCount,  \* history: number of Singleton destructor runs
    failures,   \* history: number of failed allocations
    fast        \* history: threads whose current V2 call read non-null at line 56

vars == <<variant, N, phase, pc, calls, outcome, instance, heap, mine, knows,
          lock, guard, loadOrder, rets, ctorBy, dtorCount, failures, fast>>

Variants == {"V1", "V2", "V3", "V4"}
AllThreads == 1..MaxThreads
Threads == 1..N
NULL == 0
NoThread == 0
\* V3/V4: the one object with static storage duration
StaticObj == 1
\* the caller of the static initializers (before main)
Loader == 0

ObjStates == {"Unconstructed", "UnderConstruction", "Ready", "Destroyed"}

Addrs == 1..Len(heap)

ctorCount == Cardinality(ctorBy)

RetAddrs == {r[2] : r \in rets}

----------------------------------------------------------------------------
(* Initial state: static members after constant initialization.            *)

\* `Singleton* Singleton::instance = nullptr;`
InstanceInit == NULL

\* faulty alternative: the static object is constant-initialized, Ready at load
HeapInitConst(v) == IF v \in {"V3", "V4"} THEN <<"Ready">> ELSE << >>

\* V3/V4 own static storage for the object, not yet constructed
HeapInit(v) == IF v \in {"V3", "V4"} THEN <<"Unconstructed">> ELSE << >>

\* V4 constructs its static member before main, the others start in main
PhaseInit(v) == IF v = "V4" THEN "load" ELSE "run"

Init ==
    /\ variant \in Variants
    /\ N \in 1..MaxThreads
    /\ phase = PhaseInit(variant)
    /\ pc = [t \in AllThreads |-> "idle"]
    /\ calls = [t \in AllThreads |-> 0]
    /\ outcome = [t \in AllThreads |-> "none"]
    /\ instance = InstanceInit
    /\ heap = HeapInit(variant)
    /\ mine = [t \in AllThreads |-> NULL]
    /\ knows = {}
    /\ lock = NoThread
    /\ guard = "uninit"
    /\ loadOrder = << >>
    /\ rets = {}
    /\ ctorBy = {}
    /\ dtorCount = 0
    /\ failures = 0
    /\ fast = {}

----------------------------------------------------------------------------
(* Helpers shared by the pointer variants V1 and V2.                       *)

\* faulty alternative: the null test always succeeds
IsNullAlways(p) == TRUE

\* `instance == nullptr`
IsNull(p) == p = NULL

\* Values a plain (non-atomic, unsynchronised) read of `instance` can yield:
\* the current value, or the initial nullptr while the reading thread has not
\* yet observed a store.
Observable(t) ==
    IF instance # NULL /\ t \notin knows THEN {NULL, instance} ELSE {instance}

\* faulty alternative: every allocation lands on the same address
NewAddrReused(h) == 1

\* operator new: a fresh address
NewAddr(h) == Len(h) + 1

SetState(h, a, s) == [h EXCEPT ![a] = s]

EntryPc(v) ==
    CASE v = "V1" -> "v1_check"
      [] v = "V2" -> "v2_check1"
      [] v = "V3" -> "v3_guard"
      [] v = "V4" -> "v4_ret"

\* a thread enters getInstance()
Call(t) ==
    /\ phase = "run"
    /\ t \in Threads
    /\ pc[t] = "idle"
    /\ calls[t] < MaxCalls
    /\ calls' = [calls EXCEPT ![t] = @ + 1]
    /\ pc' = [pc EXCEPT ![t] = EntryPc(variant)]
    /\ outcome' = [outcome EXCEPT ![t] = "running"]
    /\ UNCHANGED <<variant, N, phase, instance, heap, mine, knows, lock, guard,
                   loadOrder, rets, ctorBy, dtorCount, failures, fast>>

\* `return instance;` of V1 and V2: reads the pointer and hands it out
ReturnPointer(t) ==
    /\ rets' = rets \cup {<<t, instance,
                            IF instance = NULL THEN "null" ELSE heap[instance]>>}
    /\ pc' = [pc EXCEPT ![t] = "idle"]
    /\ outcome' = [outcome EXCEPT ![t] = "returned"]
    /\ mine' = [mine EXCEPT ![t] = NULL]

----------------------------------------------------------------------------
(* V1: naive lazy.                                                         *)

\* `if (instance == nullptr)`
V1Check(t) ==
    /\ pc[t] = "v1_check"
    /\ \E v \in Observable(t) :
        /\ pc' = [pc EXCEPT ![t] = IF IsNull(v) THEN "v1_new" ELSE "v1_ret"]
        /\ knows' = IF v # NULL THEN knows \cup {t} ELSE knows
    /\ UNCHANGED <<variant, N, phase, calls, outcome, instance, heap, mine, lock,
                   guard, loadOrder, rets, ctorBy, dtorCount, failures, fast>>

\* `new Singleton()`: the allocation succeeds
V1New(t) ==
    /\ pc[t] = "v1_new"
    /\ heap' = Append(heap, "UnderConstruction")
    /\ mine' = [mine EXCEPT ![t] = NewAddr(heap)]
    /\ pc' = [pc EXCEPT ![t] = "v1_init"]
    /\ UNCHANGED <<variant, N, phase, calls, outcome, instance, knows, lock, guard,
                   loadOrder, rets, ctorBy, dtorCount, failures, fast>>

\* the constructor body; not ordered with the store of the pointer
V1Ctor(t) ==
    /\ pc[t] \in {"v1_init", "v1_stored"}
    /\ heap' = SetState(heap, mine[t], "Ready")
    /\ ctorBy' = ctorBy \cup {<<t, calls[t], mine[t]>>}
    /\ pc' = [pc EXCEPT ![t] = IF pc[t] = "v1_init" THEN "v1_built" ELSE "v1_ret"]
    /\ UNCHANGED <<variant, N, phase, calls, outcome, instance, mine, knows, lock,
                   guard, loadOrder, rets, dtorCount, failures, fast>>

\* `instance = ...`
V1Store(t) ==
    /\ pc[t] \in {"v1_init", "v1_built"}
    /\ instance' = mine[t]
    /\ knows' = knows \cup {t}
    /\ pc' = [pc EXCEPT ![t] = IF pc[t] = "v1_init" THEN "v1_stored" ELSE "v1_ret"]
    /\ UNCHANGED <<variant, N, phase, calls, outcome, heap, mine, lock, guard,
                   loadOrder, rets, ctorBy, dtorCount, failures, fast>>

\* `return instance;`
V1Ret(t) ==
    /\ pc[t] = "v1_ret"
    /\ ReturnPointer(t)
    /\ UNCHANGED <<variant, N, phase, calls, instance, heap, knows, lock, guard,
                   loadOrder, ctorBy, dtorCount, failures, fast>>

----------------------------------------------------------------------------
(* V2: lazy with Deletor and double-checked locking.                       *)

\* faulty alternative: no second check, the locked branch always constructs
V2NoRecheck(p) == TRUE

\* the second `if (instance == nullptr)`, under the Lock
V2Recheck(p) == IsNull(p)

\* faulty alternative: the mutex is locked by hand and never unlocked
ReleaseKeepsLock(l) == l

\* `Lock lock;` leaves scope at the closing brace of the outer if
ReleaseLock(l) == NoThread

\* faulty alternative: a manual lock()/unlock() pair, skipped by the exception
UnwindKeepsLock(l) == l

\* `Lock lock;` is destroyed when an exception unwinds the outer if-block
UnwindLock(l) == NoThread

\* first, unlocked `if (instance == nullptr)`
V2Check1(t) ==
    /\ pc[t] = "v2_check1"
    /\ \E v \in Observable(t) :
        /\ pc' = [pc EXCEPT ![t] = IF IsNull(v) THEN "v2_lock" ELSE "v2_ret"]
        /\ knows' = IF v # NULL THEN knows \cup {t} ELSE knows
        /\ fast' = IF v # NULL THEN fast \cup {t} ELSE fast
    /\ UNCHANGED <<variant, N, phase, calls, outcome, instance, heap, mine, lock,
                   guard, loadOrder, rets, ctorBy, dtorCount, failures>>

\* `Lock lock;` blocks until the mutex is free
V2Lock(t) ==
    /\ pc[t] = "v2_lock"
    /\ lock = NoThread
    /\ lock' = t
    /\ pc' = [pc EXCEPT ![t] = "v2_check2"]
    /\ UNCHANGED <<variant, N, phase, calls, outcome, instance, heap, mine, knows,
                   guard, loadOrder, rets, ctorBy, dtorCount, failures, fast>>

\* second check: the mutex orders it after every earlier critical section
V2Check2(t) ==
    /\ pc[t] = "v2_check2"
    /\ pc' = [pc EXCEPT ![t] = IF V2Recheck(instance) THEN "v2_new" ELSE "v2_unlock"]
    /\ knows' = IF instance # NULL THEN knows \cup {t} ELSE knows
    /\ UNCHANGED <<variant, N, phase, calls, outcome, instance, heap, mine, lock,
                   guard, loadOrder, rets, ctorBy, dtorCount, failures, fast>>

\* `new Singleton()`: the allocation succeeds
V2New(t) ==
    /\ pc[t] = "v2_new"
    /\ heap' = Append(heap, "UnderConstruction")
    /\ mine' = [mine EXCEPT ![t] = NewAddr(heap)]
    /\ pc' = [pc EXCEPT ![t] = "v2_init"]
    /\ UNCHANGED <<variant, N, phase, calls, outcome, instance, knows, lock, guard,
                   loadOrder, rets, ctorBy, dtorCount, failures, fast>>

\* the constructor body; nothing orders it before the store of the pointer
V2Ctor(t) ==
    /\ pc[t] \in {"v2_init", "v2_stored"}
    /\ heap' = SetState(heap, mine[t], "Ready")
    /\ ctorBy' = ctorBy \cup {<<t, calls[t], mine[t]>>}
    /\ pc' = [pc EXCEPT ![t] = IF pc[t] = "v2_init" THEN "v2_built" ELSE "v2_unlock"]
    /\ UNCHANGED <<variant, N, phase, calls, outcome, instance, mine, knows, lock,
                   guard, loadOrder, rets, dtorCount, failures, fast>>

\* faulty alternative: the result of `new` is not assigned to `instance`
V2StoreSkipped(t) ==
    /\ pc[t] \in {"v2_init", "v2_built"}
    /\ pc' = [pc EXCEPT ![t] = IF pc[t] = "v2_init" THEN "v2_stored" ELSE "v2_unlock"]
    /\ UNCHANGED <<variant, N, phase, calls, outcome, instance, heap, mine, knows,
                   lock, guard, loadOrder, rets, ctorBy, dtorCount, failures, fast>>

\* `instance = ...`: a plain store, visible to unlocked readers at once
V2Store(t) ==
    /\ pc[t] \in {"v2_init", "v2_built"}
    /\ instance' = mine[t]
    /\ knows' = knows \cup {t}
    /\ pc' = [pc EXCEPT ![t] = IF pc[t] = "v2_init" THEN "v2_stored" ELSE "v2_unlock"]
    /\ UNCHANGED <<variant, N, phase, calls, outcome, heap, mine, lock, guard,
                   loadOrder, rets, ctorBy, dtorCount, failures, fast>>

\* end of the outer if-block: ~Lock
V2Unlock(t) ==
    /\ pc[t] = "v2_unlock"
    /\ lock' = ReleaseLock(lock)
    /\ pc' = [pc EXCEPT ![t] = "v2_ret"]
    /\ UNCHANGED <<variant, N, phase, calls, outcome, instance, heap, mine, knows,
                   guard, loadOrder, rets, ctorBy, dtorCount, failures, fast>>

\* `return instance;`
V2Ret(t) ==
    /\ pc[t] = "v2_ret"
    /\ ReturnPointer(t)
    /\ fast' = fast \ {t}
    /\ UNCHANGED <<variant, N, phase, calls, instance, heap, knows, lock, guard,
                   loadOrder, ctorBy, dtorCount, failures>>

----------------------------------------------------------------------------
(* V3: Meyers' Singleton, a function-local static (thread-safe since       *)
(* C++0x, as the header comment says).                                     *)

\* faulty alternative: a bare "initialization has started" flag, as before C++11
V3GuardStarted(g) == g # "uninit"

\* a thread may pass the declaration once the initialization is complete
V3GuardReady(g) == g = "done"

\* control reaches `static Singleton instance;`
V3Enter(t) ==
    /\ pc[t] = "v3_guard"
    /\ CASE V3GuardReady(guard) ->
              /\ pc' = [pc EXCEPT ![t] = "v3_ret"]
              /\ UNCHANGED <<guard, heap>>
         [] guard = "uninit" ->
              /\ guard' = "inprogress"
              /\ heap' = SetState(heap, StaticObj, "UnderConstruction")
              /\ pc' = [pc EXCEPT ![t] = "v3_ctor"]
         [] OTHER ->
              /\ pc' = [pc EXCEPT ![t] = "v3_wait"]
              /\ UNCHANGED <<guard, heap>>
    /\ UNCHANGED <<variant, N, phase, calls, outcome, instance, mine, knows, lock,
                   loadOrder, rets, ctorBy, dtorCount, failures, fast>>

\* a concurrent caller waits for the initialization to complete
V3Wait(t) ==
    /\ pc[t] = "v3_wait"
    /\ V3GuardReady(guard)
    /\ pc' = [pc EXCEPT ![t] = "v3_ret"]
    /\ UNCHANGED <<variant, N, phase, calls, outcome, instance, heap, mine, knows,
                   lock, guard, loadOrder, rets, ctorBy, dtorCount, failures, fast>>

\* the initializing thread runs Singleton() and completes the initialization
V3Ctor(t) ==
    /\ pc[t] = "v3_ctor"
    /\ heap' = SetState(heap, StaticObj, "Ready")
    /\ ctorBy' = ctorBy \cup {<<t, calls[t], StaticObj>>}
    /\ guard' = "done"
    /\ pc' = [pc EXCEPT ![t] = "v3_ret"]
    /\ UNCHANGED <<variant, N, phase, calls, outcome, instance, mine, knows, lock,
                   loadOrder, rets, dtorCount, failures, fast>>

\* `return instance;` (a reference to the local static)
V3Ret(t) ==
    /\ pc[t] = "v3_ret"
    /\ rets' = rets \cup {<<t, StaticObj, heap[StaticObj]>>}
    /\ pc' = [pc EXCEPT ![t] = "idle"]
    /\ outcome' = [outcome EXCEPT ![t] = "returned"]
    /\ UNCHANGED <<variant, N, phase, calls, instance, heap, mine, knows, lock,
                   guard, loadOrder, ctorBy, dtorCount, failures, fast>>

----------------------------------------------------------------------------
(* V4: eager static member.                                                *)

\* faulty alternative: getInstance() returns by value, a copy at a new address
V4GetCopy(h) == <<NewAddr(h), h[StaticObj]>>

\* `return instance;`: a reference to the static member, whatever its state
V4GetInstance(h) == <<StaticObj, h[StaticObj]>>

\* `Singleton Singleton::instance;` is dynamically initialized before main
V4StaticInit ==
    /\ phase = "load"
    /\ \A i \in 1..Len(loadOrder) : loadOrder[i] # "singleton"
    /\ heap' = SetState(heap, StaticObj, "Ready")
    /\ ctorBy' = ctorBy \cup {<<Loader, 0, StaticObj>>}
    /\ loadOrder' = Append(loadOrder, "singleton")
    /\ UNCHANGED <<variant, N, phase, pc, calls, outcome, instance, mine, knows,
                   lock, guard, rets, dtorCount, failures, fast>>

\* a non-local static of another translation unit calls getInstance() in its
\* own initializer; its order relative to Singleton::instance is unspecified
V4DepInit ==
    /\ phase = "load"
    /\ \A i \in 1..Len(loadOrder) : loadOrder[i] # "dependent"
    /\ rets' = rets \cup {<<Loader>> \o V4GetInstance(heap)}
    /\ loadOrder' = Append(loadOrder, "dependent")
    /\ UNCHANGED <<variant, N, phase, pc, calls, outcome, instance, heap, mine,
                   knows, lock, guard, ctorBy, dtorCount, failures, fast>>

\* static initialization is over, main starts
V4Main ==
    /\ phase = "load"
    /\ Len(loadOrder) = 2
    /\ phase' = "run"
    /\ UNCHANGED <<variant, N, pc, calls, outcome, instance, heap, mine, knows,
                   lock, guard, loadOrder, rets, ctorBy, dtorCount, failures, fast>>

\* getInstance() called by a thread
V4Ret(t) ==
    /\ pc[t] = "v4_ret"
    /\ rets' = rets \cup {<<t>> \o V4GetInstance(heap)}
    /\ pc' = [pc EXCEPT ![t] = "idle"]
    /\ outcome' = [outcome EXCEPT ![t] = "returned"]
    /\ UNCHANGED <<variant, N, phase, calls, instance, heap, mine, knows, lock,
                   guard, loadOrder, ctorBy, dtorCount, failures, fast>>

----------------------------------------------------------------------------
(* Process exit: destructors of the objects with static storage duration.  *)

\* `static Deletor deletor;` is a declaration inside the class; the file
\* holds no definition `Singleton::Deletor Singleton::deletor;`, so no Deletor
\* object exists in the program.
DeletorDefined == FALSE

\* ~Deletor(): `if (Singleton::instance != nullptr) delete Singleton::instance;`
DeletorDtor(inst) == IF inst # NULL THEN {inst} ELSE {}

\* faulty alternative: the pointer variants delete `instance` at exit
DoomedPointee ==
    IF variant \in {"V1", "V2"} THEN (IF instance # NULL THEN {instance} ELSE {})
    ELSE {StaticObj}

\* the Singleton objects whose destructor runs at exit
Doomed ==
    CASE variant = "V1" -> {}
      [] variant = "V2" -> IF DeletorDefined THEN DeletorDtor(instance) ELSE {}
      [] variant = "V3" -> IF guard = "done" THEN {StaticObj} ELSE {}
      [] variant = "V4" -> {StaticObj}

\* main returns after the threads are joined; static destructors run
Exit ==
    /\ phase = "run"
    /\ \A t \in Threads : pc[t] = "idle"
    /\ phase' = "exit"
    /\ heap' = [a \in DOMAIN heap |-> IF a \in Doomed THEN "Destroyed" ELSE heap[a]]
    /\ dtorCount' = dtorCount + Cardinality(Doomed)
    /\ UNCHANGED <<variant, N, pc, calls, outcome, instance, mine, knows, lock,
                   guard, loadOrder, rets, ctorBy, failures, fast>>

----------------------------------------------------------------------------
(* Allocation failure: operator new throws std::bad_alloc.                 *)

\* V1: the exception leaves getInstance() before anything is stored
V1NewFail(t) ==
    /\ pc[t] = "v1_new"
    /\ failures < MaxFailures
    /\ failures' = failures + 1
    /\ pc' = [pc EXCEPT ![t] = "idle"]
    /\ outcome' = [outcome EXCEPT ![t] = "threw"]
    /\ UNCHANGED <<variant, N, phase, calls, instance, heap, mine, knows, lock,
                   guard, loadOrder, rets, ctorBy, dtorCount, fast>>

\* V2: the exception unwinds the outer if-block, destroying the Lock
V2NewFail(t) ==
    /\ pc[t] = "v2_new"
    /\ failures < MaxFailures
    /\ failures' = failures + 1
    /\ lock' = UnwindLock(lock)
    /\ pc' = [pc EXCEPT ![t] = "idle"]
    /\ outcome' = [outcome EXCEPT ![t] = "threw"]
    /\ UNCHANGED <<variant, N, phase, calls, instance, heap, mine, knows, guard,
                   loadOrder, rets, ctorBy, dtorCount, fast>>

----------------------------------------------------------------------------
(* Specifications.                                                         *)

\* construction never fails (the contract of section 4.1 of the spec)
Next ==
    \/ \E t \in AllThreads : Call(t)
    \/ \E t \in AllThreads : V1Check(t)
    \/ \E t \in AllThreads : V1New(t)
    \/ \E t \in AllThreads : V1Ctor(t)
    \/ \E t \in AllThreads : V1Store(t)
    \/ \E t \in AllThreads : V1Ret(t)
    \/ \E t \in AllThreads : V2Check1(t)
    \/ \E t \in AllThreads : V2Lock(t)
    \/ \E t \in AllThreads : V2Check2(t)
    \/ \E t \in AllThreads : V2New(t)
    \/ \E t \in AllThreads : V2Ctor(t)
    \/ \E t \in AllThreads : V2Store(t)
    \/ \E t \in AllThreads : V2Unlock(t)
    \/ \E t \in AllThreads : V2Ret(t)
    \/ \E t \in AllThreads : V3Enter(t)
    \/ \E t \in AllThreads : V3Wait(t)
    \/ \E t \in AllThreads : V3Ctor(t)
    \/ \E t \in AllThreads : V3Ret(t)
    \/ V4StaticInit
    \/ V4DepInit
    \/ V4Main
    \/ \E t \in AllThreads : V4Ret(t)
    \/ Exit

Spec == Init /\ [][Next]_vars

\* operator new may throw, at most MaxFailures times
NextFail ==
    \/ Next
    \/ \E t \in AllThreads : V1NewFail(t)
    \/ \E t \in AllThreads : V2NewFail(t)

SpecFail == Init /\ [][NextFail]_vars

\* the guarded-lazy variant alone
InitV2 == Init /\ variant = "V2"

\* a step of thread t inside getInstance() of V2
V2Step(t) ==
    \/ V2Check1(t)
    \/ V2Lock(t)
    \/ V2Check2(t)
    \/ V2New(t)
    \/ V2Ctor(t)
    \/ V2Store(t)
    \/ V2Unlock(t)
    \/ V2Ret(t)

NextV2 ==
    \/ \E t \in AllThreads : Call(t)
    \/ \E t \in AllThreads : V2Step(t)
    \/ Exit

\* every thread that can take a step inside getInstance() eventually takes
\* one (the scheduler runs every runnable thread; construction completes)
SpecV2Fair ==
    InitV2 /\ [][NextV2]_vars /\ \A t \in AllThreads : WF_vars(V2Step(t))

----------------------------------------------------------------------------
(* The v2 class with a Deletor object in existence: what ~Deletor and a     *)
(* getInstance() call made during exit do.                                 *)

\* the main thread, which runs the destructors of static objects
MainThread == 1

\* faulty alternative: ~Deletor also resets the pointer after the delete
DeletorRunResets ==
    /\ variant = "V2"
    /\ phase = "exit"
    /\ \A t \in Threads : pc[t] = "idle"
    /\ dtorCount < MaxDeletorRuns
    /\ heap' = [a \in DOMAIN heap |->
                   IF a \in DeletorDtor(instance) THEN "Destroyed" ELSE heap[a]]
    /\ dtorCount' = dtorCount + Cardinality(DeletorDtor(instance))
    /\ instance' = NULL
    /\ UNCHANGED <<variant, N, phase, pc, calls, outcome, mine, knows, lock,
                   guard, loadOrder, rets, ctorBy, failures, fast>>

\* ~Deletor(): deletes the object `instance` points to, if any, and leaves
\* the pointer as it is
DeletorRun ==
    /\ variant = "V2"
    /\ phase = "exit"
    /\ \A t \in Threads : pc[t] = "idle"
    /\ dtorCount < MaxDeletorRuns
    /\ heap' = [a \in DOMAIN heap |->
                   IF a \in DeletorDtor(instance) THEN "Destroyed" ELSE heap[a]]
    /\ dtorCount' = dtorCount + Cardinality(DeletorDtor(instance))
    /\ UNCHANGED <<variant, N, phase, pc, calls, outcome, instance, mine, knows,
                   lock, guard, loadOrder, rets, ctorBy, failures, fast>>

\* getInstance() called during exit, from the destructor of a static object
ExitCall(t) ==
    /\ variant = "V2"
    /\ phase = "exit"
    /\ t = MainThread
    /\ pc[t] = "idle"
    /\ calls[t] < MaxCalls
    /\ calls' = [calls EXCEPT ![t] = @ + 1]
    /\ pc' = [pc EXCEPT ![t] = EntryPc(variant)]
    /\ outcome' = [outcome EXCEPT ![t] = "running"]
    /\ UNCHANGED <<variant, N, phase, instance, heap, mine, knows, lock, guard,
                   loadOrder, rets, ctorBy, dtorCount, failures, fast>>

NextDeletor ==
    \/ Next
    \/ DeletorRun
    \/ \E t \in AllThreads : ExitCall(t)

SpecDeletor == Init /\ [][NextDeletor]_vars

----------------------------------------------------------------------------
(* Properties.                                                             *)

Lazy == {"V1", "V2", "V3"}

AllDone == \A t \in Threads : pc[t] = "idle" /\ calls[t] = MaxCalls

\* the step in which thread t's call ends by an exception
Threw(t) == outcome[t] = "running" /\ outcome'[t] = "threw"

\* C1: in V2 the constructor never runs more than once, and has run exactly
\* once as soon as some getInstance() call has returned.
C1_ConstructedExactlyOnce ==
    variant = "V2" =>
        /\ ctorCount <= 1
        /\ rets # {} => ctorCount = 1

\* part of C1 that holds: V2 never constructs twice, and has constructed once
\* when every call has returned
C1_AtMostOnce ==
    variant = "V2" =>
        /\ ctorCount <= 1
        /\ Len(heap) <= 1
        /\ (rets # {} /\ \A t \in Threads : pc[t] = "idle") => ctorCount = 1

\* C2: in V2 every getInstance() call returns the same identity, the address
\* held by `instance`, whatever the interleaving and however late the call.
C2_SameIdentity ==
    variant = "V2" =>
        /\ Cardinality(RetAddrs) <= 1
        /\ \A r \in rets : r[2] # NULL /\ r[2] = instance

C2_Witness ==
    /\ variant = "V2"
    /\ N = MaxThreads
    /\ AllDone
    /\ \A t \in Threads : \E r \in rets : r[1] = t
    /\ \E t \in Threads : \A c \in ctorBy : c[1] # t

\* C3: in V2 no getInstance() call returns an Instance that is still under
\* construction.
C3_SafePublication ==
    variant = "V2" => \A r \in rets : r[3] # "UnderConstruction"

\* C4: in V1 nothing makes the check and the assignment one step: every call
\* that passed the check allocates an Instance of its own, distinct from the
\* one any other call allocated, each constructor run builds a different
\* object, and a return hands out an allocated object that may differ from
\* the one another call returned.
C4_V1Race ==
    variant = "V1" =>
        /\ \A t, u \in Threads :
              (t # u /\ mine[t] # NULL /\ mine[u] # NULL) => mine[t] # mine[u]
        /\ \A t \in Threads : mine[t] # NULL => mine[t] \in Addrs
        /\ \A c, d \in ctorBy : c[3] = d[3] => c = d
        /\ \A r \in rets : r[2] \in Addrs
        /\ Cardinality(RetAddrs) <= Len(heap)

\* two threads, one call each. The thread that allocated first (address 1)
\* stored last, so each check ran before either store and both read a true
\* nullptr: two Instances were constructed, the pointer to the second was
\* overwritten, and the two calls returned different identities.
C4_Witness ==
    /\ variant = "V1"
    /\ N = 2
    /\ \A t \in Threads : pc[t] = "idle" /\ calls[t] = 1
    /\ \E t, u \in Threads :
          /\ t # u
          /\ ctorBy = {<<t, 1, 1>>, <<u, 1, 2>>}
          /\ <<t, 1, "Ready">> \in rets
          /\ <<u, 2, "Ready">> \in rets
    /\ instance = 1
    /\ heap = <<"Ready", "Ready">>

\* C5: with a single thread, in each of V1, V2 and V3 the first call, and no
\* other call, constructs the Instance, and every call returns that object,
\* fully constructed.
C5_SingleThreadLazy ==
    (N = 1 /\ variant \in Lazy) =>
        /\ \A c \in ctorBy : c[2] = 1
        /\ ctorCount <= 1
        /\ rets # {} => ctorCount = 1
        /\ \A r \in rets : \A c \in ctorBy : r[2] = c[3] /\ r[3] = "Ready"

C5_Witness ==
    /\ N = 1
    /\ variant = "V1"
    /\ calls[1] = MaxCalls
    /\ pc[1] = "idle"
    /\ ctorCount = 1
    /\ rets # {}

\* C6: in V3 the Instance is constructed at most once and exactly once when a
\* call has returned; a caller is past the declaration only when the Instance
\* is Ready, so one that arrived during construction is still waiting; every
\* call returns the same reference, to a Ready object.
C6_V3OnceBlocking ==
    variant = "V3" =>
        /\ ctorCount <= 1
        /\ rets # {} => ctorCount = 1
        /\ \A t \in Threads : pc[t] = "v3_ret" => heap[StaticObj] = "Ready"
        /\ \A t \in Threads :
              pc[t] = "v3_wait" => heap[StaticObj] \in {"UnderConstruction", "Ready"}
        /\ Cardinality({t \in Threads : pc[t] = "v3_ctor"}) <= 1
        /\ \A r \in rets : r[2] = StaticObj /\ r[3] = "Ready"

C6_Witness ==
    /\ variant = "V3"
    /\ heap[StaticObj] = "UnderConstruction"
    /\ \E t, u \in Threads : pc[t] = "v3_ctor" /\ pc[u] = "v3_wait"

\* C7: in V2, at process exit the Instance's destructor has run exactly once
\* if the Instance was constructed and not at all otherwise, and it never runs
\* before exit.
C7_DestroyedOnceAtExit ==
    variant = "V2" =>
        /\ dtorCount <= 1
        /\ phase # "exit" => dtorCount = 0
        /\ phase = "exit" => dtorCount = (IF ctorCount > 0 THEN 1 ELSE 0)

\* C8: in V4 getInstance() constructs nothing: the only construction is the
\* one static initialization at load time, and every call made by a thread
\* (after initialization) returns that one object, Ready.
C8_Eager ==
    variant = "V4" =>
        /\ \A c \in ctorBy : c[1] = Loader /\ c[3] = StaticObj
        /\ ctorCount <= 1
        /\ phase # "load" => ctorCount = 1
        /\ Len(heap) = 1
        /\ \A r \in rets : r[2] = StaticObj
        /\ \A r \in rets : r[1] \in Threads => r[3] = "Ready"

C8_Witness ==
    /\ variant = "V4"
    /\ N = MaxThreads
    /\ AllDone
    /\ \A t \in Threads : <<t, StaticObj, "Ready">> \in rets

\* C9: in V4 the getInstance() call of the dependent global returns the
\* static member in whatever state it is in: Unconstructed when the dependent
\* global is initialized first, Ready when it is initialized second.
C9_InitOrderHazard ==
    variant = "V4" =>
        \A r \in rets :
            r[1] = Loader =>
                /\ r[2] = StaticObj
                /\ r[3] = (IF loadOrder[1] = "dependent" THEN "Unconstructed"
                                                         ELSE "Ready")

C9_Witness ==
    /\ variant = "V4"
    /\ <<Loader, StaticObj, "Unconstructed">> \in rets

C12_WrittenOnceUnderLock ==
    [][variant = "V2" =>
          (instance' # instance =>
              /\ instance = NULL
              /\ lock \in Threads
              /\ pc[lock] \in {"v2_init", "v2_built"}
              /\ instance' = mine[lock]
              /\ instance' \in Addrs
              /\ lock' = lock)]_vars

\* a thread that entered the locked branch after the store: its second check
\* found `instance` non-null and it is leaving without having written
C12_Witness ==
    /\ variant = "V2"
    /\ instance # NULL
    /\ \E t \in Threads : pc[t] = "v2_unlock" /\ lock = t /\ mine[t] = NULL

\* the positions of the locked branch of V2, lines 57-61
V2Locked == {"v2_check2", "v2_new", "v2_init", "v2_built", "v2_stored", "v2_unlock"}

\* C13: in V2 a call whose first, unlocked check read non-null goes straight
\* to the return: it never holds the Lock and has allocated nothing.  The Lock
\* is held exactly by the calls inside the locked branch, which only calls
\* whose first check read nullptr enter, and such a call is at or before the
\* store of a new Instance only while `instance` is still nullptr.
C13_FastPath ==
    variant = "V2" =>
        \A t \in Threads :
            /\ t \in fast =>
                  /\ pc[t] = "v2_ret"
                  /\ lock # t
                  /\ mine[t] = NULL
                  /\ instance # NULL
            /\ pc[t] \in V2Locked <=> lock = t
            /\ pc[t] \in V2Locked \cup {"v2_lock"} => t \notin fast
            /\ pc[t] \in {"v2_new", "v2_init", "v2_built"} => instance = NULL

\* a fast-path call in progress while another thread is in the locked branch
C13_Witness ==
    /\ variant = "V2"
    /\ \E t, u \in Threads : t \in fast /\ pc[t] = "v2_ret" /\ lock = u

\* C14: in V2, under weak fairness of every thread's steps, every
\* getInstance() call eventually returns; the Lock is held only by a thread
\* inside the locked branch, so it is free again on every path out of the
\* outer if-block, and while a call is in progress some thread can step.
C14_Terminates ==
    /\ \A t \in AllThreads :
          (pc[t] # "idle") ~> (pc[t] = "idle" /\ outcome[t] = "returned")
    /\ [](lock # NoThread => (lock \in Threads /\ pc[lock] \in V2Locked))
    /\ []((\E t \in Threads : pc[t] # "idle") =>
              ENABLED (\E t \in AllThreads : V2Step(t)))

\* a thread blocked on the Lock while another thread holds it
C14_Witness ==
    /\ variant = "V2"
    /\ \E t, u \in Threads : t # u /\ pc[t] = "v2_lock" /\ lock = u

\* C15: in V1 no destructor ever runs: every Instance whose constructor has
\* run is Ready in every later state, process exit included, and none is
\* ever Destroyed.
C15_V1NeverDestroys ==
    variant = "V1" =>
        /\ dtorCount = 0
        /\ \A a \in Addrs : heap[a] # "Destroyed"
        /\ \A c \in ctorBy : heap[c[3]] = "Ready"

\* after exit of a racy run: two Instances, one of them no longer pointed to
\* by `instance`, both still Ready
C15_Witness ==
    /\ variant = "V1"
    /\ phase = "exit"
    /\ ctorCount = 2
    /\ instance # NULL
    /\ \A a \in Addrs : heap[a] = "Ready"
    /\ \E a \in Addrs : a # instance

\* C16: in V1 and V2 no getInstance() call returns nullptr: a call about to
\* return finds `instance` non-null, and every returned pointer is the
\* address of an Instance allocated by the new-expression of some call, under
\* construction or Ready.
C16_NeverNull ==
    variant \in {"V1", "V2"} =>
        /\ \A t \in Threads : pc[t] \in {"v1_ret", "v2_ret"} => instance # NULL
        /\ \A r \in rets :
              /\ r[2] # NULL
              /\ r[2] \in Addrs
              /\ r[3] \in {"UnderConstruction", "Ready"}
        /\ Len(heap) <= Cardinality(ctorBy) +
              Cardinality({t \in Threads : mine[t] # NULL
                              /\ \A c \in ctorBy : c[3] # mine[t]})

\* all calls of all threads have returned, and one of them returned the
\* pointer published by another call before its constructor had run
C16_Witness ==
    /\ variant = "V2"
    /\ N = MaxThreads
    /\ AllDone
    /\ \E r \in rets : r[3] = "UnderConstruction"
    /\ \E r \in rets : r[3] = "Ready"

\* C17: in V2, once ~Deletor has deleted the Instance, `instance` still holds
\* its address: the object is Destroyed, no getInstance() call allocates or
\* constructs again, a call that returns then returns the address of the
\* Destroyed Instance, and each run of ~Deletor deletes that same object
\* without changing the pointer.
C17_DanglingAfterDeletor ==
    /\ [](variant = "V2" /\ dtorCount >= 1 =>
            /\ instance # NULL
            /\ heap[instance] = "Destroyed"
            /\ Len(heap) = 1
            /\ ctorCount = 1
            /\ \A t \in Threads :
                  pc[t] \notin {"v2_new", "v2_init", "v2_built", "v2_stored"})
    /\ [][variant = "V2" =>
            /\ dtorCount' > dtorCount =>
                  /\ instance # NULL
                  /\ instance' = instance
                  /\ heap'[instance] = "Destroyed"
                  /\ dtorCount' = dtorCount + 1
            /\ (dtorCount >= 1 /\ rets' # rets) =>
                  \E t \in Threads : rets' = rets \cup {<<t, instance, "Destroyed">>}]_vars

\* ~Deletor has run twice on the one Instance and a getInstance() call made
\* in between or after returned the dangling pointer
C17_Witness ==
    /\ variant = "V2"
    /\ dtorCount = 2
    /\ Len(heap) = 1
    /\ \E r \in rets : r[2] = instance /\ r[3] = "Destroyed"

====
